---- MODULE Spec2Model ----
(***************************************************************************)
(* Model of the document-analysis pipeline: src/src/tools.py (the tools),  *)
(* src/src/agents.py (the LangGraph stages, the router, analyze_document   *)
(* and answer_question), src/src/backend.py and src/src/database.py        *)
(* (process_document and the log table) and the analyze action of          *)
(* src/app.py.  Spec is the graph run, SpecStore and SpecChunks are        *)
(* store_document on its own, SpecQA is retrieval and Q&A, SpecBackend is  *)
(* the page over process_document.                                         *)
(*                                                                         *)
(* Text is a sequence of tokens.  The token " " is whitespace, the token   *)
(* "Error" stands for the five characters the processor tests with         *)
(* startswith("Error"); every other token is ordinary non-blank text.      *)
(* An oracle call (llm.invoke, a PDF library call) has an outcome          *)
(* [kind, val]: kind "ok" with the content returned, or kind "raise" with  *)
(* the text of the exception.                                              *)
(***************************************************************************)
EXTENDS Integers, Sequences, FiniteSets, TLC

VARIABLES
    pc,            \* where the orchestrator is: "idle", a node of the graph, "parallel_wait", "END"
    state,         \* the DocumentState threaded through the graph
    futures,       \* the three futures of parallel_analysis
    vectorstore,   \* the Chroma collection "documents": a sequence of chunk documents
    result,        \* what analyze_document returned last: <<>> or <<projection>>
    extract_log,   \* history: what the two extraction strategies yielded, and the tool's return value
    llm_out,       \* history: per call site, the outcome of its llm.invoke in this run
    tool_calls,    \* history: the capabilities invoked in this run
    stages,        \* history: the nodes run in this run, each with the status it returned
    runs,          \* number of analyze_document calls started
    store_log,     \* history: the store_document calls made, each with its fault, return value and effect
    doc_text,      \* the content handed to store_document when it is called on its own
    storing,       \* per thread, where its store_document call is: before the lookup, before the add, returned
    qa,            \* history: the last search_document or answer_question call and what it returned
    analyses,      \* the rows of table "analyses" of the SQLite log, in insertion order
    returned,      \* history: the results process_document returned, in call order
    tmp_files,     \* the temporary upload files present on disk
    app            \* the analyze action of the page: its position, its temp path, the uploaded name

vars == <<pc, state, futures, vectorstore, result, extract_log, llm_out, tool_calls, stages, runs,
          store_log, doc_text, storing, qa, analyses, returned, tmp_files, app>>

\* the variables of the graph run
pipevars == <<pc, state, futures, result, extract_log, llm_out, tool_calls, stages, runs>>

\* the variables of the Q&A, logging and page layers
appvars == <<doc_text, storing, qa, analyses, returned, tmp_files, app>>

-----------------------------------------------------------------------------
(* Bounds of the model *)

\* analyze_document calls per behaviour
MaxRuns == 2
\* a questions array holds 0 .. MaxArrayLen entries
MaxArrayLen == 6
\* scores the oracle may return lie between -ScoreSlack and 100 + ScoreSlack
ScoreSlack == 2

\* threads that may be inside store_document at once
MaxThreads == 2

Threads == 1..MaxThreads

-----------------------------------------------------------------------------
(* Text helpers *)

Space == " "

ErrorTok == "Error"

\* str.lstrip(): s from its first non-whitespace token on
lstrip(s) ==
    LET keep == {i \in 1..Len(s) : s[i] # Space}
    IN  IF keep = {} THEN <<>>
        ELSE SubSeq(s, CHOOSE i \in keep : \A j \in keep : i <= j, Len(s))

\* str.rstrip(): s up to its last non-whitespace token
rstrip(s) ==
    LET keep == {i \in 1..Len(s) : s[i] # Space}
    IN  IF keep = {} THEN <<>>
        ELSE SubSeq(s, 1, CHOOSE i \in keep : \A j \in keep : i >= j)

\* str.strip()
strip(s) == rstrip(lstrip(s))

\* str.startswith("Error")
startswith_Error(s) == Len(s) > 0 /\ s[1] = ErrorTok

\* s[:n]
Prefix(s, n) == SubSeq(s, 1, IF Len(s) < n THEN Len(s) ELSE n)

Min(a, b) == IF a < b THEN a ELSE b

Max(a, b) == IF a > b THEN a ELSE b

\* os.path.basename of a path given as its sequence of components
basename(file_path) == <<file_path[Len(file_path)]>>

Ok(v) == [kind |-> "ok", val |-> v]

Raise(e) == [kind |-> "raise", val |-> e]

NotCalled == [kind |-> "none", val |-> <<>>]

\* str(e) of the exceptions the environment may raise
ExcMsgs == {<<"boom">>}

\* contents the generation oracle may return for a free-text prompt
OracleTexts == {<<Space>>, <<Space, "a", Space>>}

TextOutcomes == {Raise(e) : e \in ExcMsgs} \cup {Ok(t) : t \in OracleTexts}

-----------------------------------------------------------------------------
(* re.search and json.loads, over tokens *)

LBrace == "{"

RBrace == "}"

LBracket == "["

RBracket == "]"

Comma == ","

ScoreKey == "\"score\":"

ReasoningKey == "\"reasoning\":"

JsonNull == "null"

\* a JSON string literal with the given content
Quote(s) == "\"" \o s \o "\""

\* the integers that occur as JSON numbers or inside JSON strings
JsonInts == (0 - ScoreSlack - 1) .. (100 + ScoreSlack + 1)

JsonNumbers == {ToString(n) : n \in JsonInts}

JsonStrings == {Quote(ToString(n)) : n \in JsonInts} \cup {Quote("r"), Quote("high")}

JsonValues == JsonNumbers \cup JsonStrings \cup {JsonNull}

JsonKeys == {ScoreKey, ReasoningKey}

\* index of the first token equal to tok at a position > from, or 0
FirstIndex(s, tok, from) ==
    IF \E i \in (from + 1)..Len(s) : s[i] = tok
    THEN CHOOSE i \in (from + 1)..Len(s) :
             s[i] = tok /\ \A j \in (from + 1)..(i - 1) : s[j] # tok
    ELSE 0

\* re.search(open .*? close, content, re.DOTALL): the match from the first open
\* to the first close after it, or <<>> when there is none
re_search(open, close, content) ==
    LET i == FirstIndex(content, open, 0)
        j == IF i = 0 THEN 0 ELSE FirstIndex(content, close, i)
    IN  IF j = 0 THEN <<>> ELSE SubSeq(content, i, j)

NoSpace(s) == SelectSeq(s, LAMBDA t : t # Space)

\* what lies between the delimiters of a match, whitespace dropped
Inner(match) == NoSpace(SubSeq(match, 2, Len(match) - 1))

\* json.loads of a [ ... ] match: does it decode
json_array_ok(match) ==
    LET in == Inner(match)
    IN  \/ in = <<>>
        \/ /\ Len(in) % 2 = 1
           /\ \A i \in 1..Len(in) :
                IF i % 2 = 1 THEN in[i] \in JsonValues ELSE in[i] = Comma

\* json.loads of a [ ... ] match that decodes: the list of its elements
json_array(match) ==
    LET in == Inner(match)
    IN  [k \in 1..((Len(in) + 1) \div 2) |-> in[2 * k - 1]]

\* json.loads of a { ... } match: does it decode
json_object_ok(match) ==
    LET in == Inner(match)
    IN  \/ in = <<>>
        \/ /\ Len(in) % 3 = 2
           /\ \A i \in 1..Len(in) :
                CASE i % 3 = 1 -> in[i] \in JsonKeys
                  [] i % 3 = 2 -> in[i] \in JsonValues
                  [] OTHER     -> in[i] = Comma

\* dict.get(key, default) on the decoded object: the value of the last member
\* with that key, or the default
json_get(match, key, default) ==
    LET in == Inner(match)
        at == {i \in 1..Len(in) : i % 3 = 1 /\ in[i] = key}
    IN  IF at = {} THEN default
        ELSE in[(CHOOSE i \in at : \A j \in at : j <= i) + 1]

\* int(v) for a decoded JSON value: does it return (a number, or a string
\* holding a numeral) or raise (ValueError, TypeError)
int_ok(v) ==
    \E n \in JsonInts : v = ToString(n) \/ v = Quote(ToString(n))

int(v) ==
    CHOOSE n \in JsonInts : v = ToString(n) \/ v = Quote(ToString(n))

-----------------------------------------------------------------------------
(* src/src/tools.py *)

chunk_size == 1000

overlap == 200

\* Tool 1.  primary is what reading the pages with fitz yields, fallback what
\* pdfplumber yields; the fallback is read only when the primary text is
\* blank, and any exception becomes an error string.
FallbackTried(primary) == primary.kind = "ok" /\ strip(primary.val) = <<>>

extract_text_from_pdf(primary, fallback) ==
    IF primary.kind = "raise"
    THEN <<ErrorTok, " extracting text: ">> \o primary.val
    ELSE IF strip(primary.val) # <<>>
    THEN strip(primary.val)
    ELSE IF fallback.kind = "raise"
    THEN <<ErrorTok, " extracting text: ">> \o fallback.val
    ELSE strip(primary.val \o fallback.val)

\* a lookup that never finds a stored chunk
existing_never(vs, filename) == {}

\* vectorstore.get(where={"source": filename})["ids"]
existing(vs, filename) == {i \in 1..Len(vs) : vs[i].source = filename}

\* the loop with windows that do not overlap: the start advances by chunk_size
RECURSIVE make_chunks_no_overlap(_, _, _, _)
make_chunks_no_overlap(content, filename, i, chunks) ==
    IF i >= Len(content) THEN chunks
    ELSE LET chunk == SubSeq(content, i + 1, Min(i + chunk_size, Len(content)))
         IN  make_chunks_no_overlap(content, filename, i + chunk_size,
                 IF strip(chunk) # <<>>
                 THEN Append(chunks, [page_content |-> chunk,
                                      source       |-> filename,
                                      chunk_id     |-> Len(chunks)])
                 ELSE chunks)

\* the loop with chunk_id taken from the window's position, blank windows
\* counted
RECURSIVE make_chunks_window_id(_, _, _, _)
make_chunks_window_id(content, filename, i, chunks) ==
    IF i >= Len(content) THEN chunks
    ELSE LET chunk == SubSeq(content, i + 1, Min(i + chunk_size, Len(content)))
         IN  make_chunks_window_id(content, filename, i + (chunk_size - overlap),
                 IF strip(chunk) # <<>>
                 THEN Append(chunks, [page_content |-> chunk,
                                      source       |-> filename,
                                      chunk_id     |-> i \div (chunk_size - overlap)])
                 ELSE chunks)

\* the loop of store_document: the non-blank windows of content that start at
\* i, i + 800, ..., appended to chunks with chunk_id = len(chunks)
RECURSIVE make_chunks(_, _, _, _)
make_chunks(content, filename, i, chunks) ==
    IF i >= Len(content) THEN chunks
    ELSE LET chunk == SubSeq(content, i + 1, Min(i + chunk_size, Len(content)))
         IN  make_chunks(content, filename, i + (chunk_size - overlap),
                 IF strip(chunk) # <<>>
                 THEN Append(chunks, [page_content |-> chunk,
                                      source       |-> filename,
                                      chunk_id     |-> Len(chunks)])
                 ELSE chunks)

\* Tool 2.  fault names the call that raises inside the tool: "none", "get"
\* (vectorstore.get) or "add" (vectorstore.add_documents, which embeds the
\* chunks).  Returns the tool's string and the collection afterwards.
store_document(file_path, content, vs, fault) ==
    LET filename == basename(file_path)
        chunks   == make_chunks(content, filename, 0, <<>>)
    IN  IF fault = "get"
        THEN [ret |-> <<ErrorTok, " storing document: ">>, vectorstore |-> vs]
        ELSE IF existing(vs, filename) # {}
        THEN [ret |-> <<"Document ">> \o filename \o <<" already stored - skipping.">>,
              vectorstore |-> vs]
        ELSE IF fault = "add"
        THEN [ret |-> <<ErrorTok, " storing document: ">>, vectorstore |-> vs]
        ELSE [ret |-> <<"Stored ", ToString(Len(chunks)), " chunks from ">> \o filename
                          \o <<" in ChromaDB.">>,
              vectorstore |-> vs \o chunks]

\* a lookup by the path as given, while the chunks carry the base name
store_lookup_by_path(file_path, vs, fault) ==
    IF fault = "get"
    THEN [returns |-> TRUE, ret |-> <<ErrorTok, " storing document: ">>]
    ELSE IF existing(vs, file_path) # {}
    THEN [returns |-> TRUE,
          ret |-> <<"Document ">> \o basename(file_path) \o <<" already stored - skipping.">>]
    ELSE [returns |-> FALSE, ret |-> <<>>]

\* store_document up to its early return: the lookup of the file name.
\* returns tells whether the call ends here, with ret
store_lookup(file_path, vs, fault) ==
    IF fault = "get"
    THEN [returns |-> TRUE, ret |-> <<ErrorTok, " storing document: ">>]
    ELSE IF existing(vs, basename(file_path)) # {}
    THEN [returns |-> TRUE,
          ret |-> <<"Document ">> \o basename(file_path) \o <<" already stored - skipping.">>]
    ELSE [returns |-> FALSE, ret |-> <<>>]

\* store_document after the lookup found nothing: the chunking and
\* add_documents on the collection as it is by then
store_add(file_path, content, vs, fault) ==
    IF fault = "add"
    THEN [ret |-> <<ErrorTok, " storing document: ">>, vectorstore |-> vs]
    ELSE [ret |-> <<"Stored ",
                    ToString(Len(make_chunks(content, basename(file_path), 0, <<>>))),
                    " chunks from ">> \o basename(file_path) \o <<" in ChromaDB.">>,
          vectorstore |-> vs \o make_chunks(content, basename(file_path), 0, <<>>)]

\* what one store_document call did: its arguments' identity, the fault it
\* met, the string it returned (r.ret) and the number of chunks it added
StoreCall(file_path, fault, r, vs) ==
    [file_path |-> file_path, fault |-> fault, ret |-> r.ret,
     added |-> Len(r.vectorstore) - Len(vs)]

\* similarity_search returns at most search_k documents
search_k == 5

\* "\n\n---\n\n"
Separator == "---"

NoSections == <<"No relevant sections found.">>

\* sep.join(texts)
RECURSIVE join(_, _)
join(sep, texts) ==
    IF texts = <<>> THEN <<>>
    ELSE IF Len(texts) = 1 THEN texts[1]
    ELSE texts[1] \o <<sep>> \o join(sep, Tail(texts))

\* the chunks the filter of similarity_search admits: all of them for "",
\* else those whose source is filename
Admitted(vs, filename) ==
    IF filename = <<>> THEN 1..Len(vs) ELSE {i \in 1..Len(vs) : vs[i].source = filename}

\* the results similarity_search may return: the admitted chunks, at most
\* search_k of them, in any order the embedding distances give
Rankings(vs, filename) ==
    LET n == Min(search_k, Cardinality(Admitted(vs, filename)))
    IN  {r \in [1..n -> Admitted(vs, filename)] : \A i, j \in 1..n : r[i] = r[j] => i = j}

\* a search that joins whatever came back, without the test for no results
search_document_unchecked(query, filename, vs, fault, ranked) ==
    IF fault # "none"
    THEN Ok(<<ErrorTok, " searching document: ">>)
    ELSE Ok(join(Separator, [i \in 1..Len(ranked) |-> vs[ranked[i]].page_content]))

\* Tool 3.  fault is "search" when similarity_search raises (embedding of the
\* query or the index), ranked is the sequence of chunk positions it returns
\* otherwise.  The outcome is always a returned string.
search_document(query, filename, vs, fault, ranked) ==
    IF fault # "none"
    THEN Ok(<<ErrorTok, " searching document: ">>)
    ELSE IF ranked = <<>>
    THEN Ok(NoSections)
    ELSE Ok(join(Separator, [i \in 1..Len(ranked) |-> vs[ranked[i]].page_content]))

\* Tools 4, 5, 6: one llm.invoke each; out is its outcome
summarize_text(out) ==
    IF out.kind = "raise" THEN <<ErrorTok, " summarizing: ">> \o out.val
    ELSE strip(out.val)

extract_key_info(out) ==
    IF out.kind = "raise" THEN <<ErrorTok, " extracting info: ">> \o out.val
    ELSE strip(out.val)

flag_risks(out) ==
    IF out.kind = "raise" THEN <<ErrorTok, " flagging risks: ">> \o out.val
    ELSE strip(out.val)

-----------------------------------------------------------------------------
(* src/src/agents.py *)

English == <<"English">>

END == "END"

Branches == {"summary", "key_info", "risks"}

\* the tool each branch of parallel_analysis invokes
BranchTool == [summary |-> "summarize_text", key_info |-> "extract_key_info",
               risks |-> "flag_risks"]

LlmSites == {"detect_language", "summarize_text", "extract_key_info", "flag_risks",
             "calculate_risk_score", "report_agent", "generate_suggested_questions"}

detect_language(out) ==
    IF out.kind = "raise" THEN English ELSE strip(out.val)

\* the prompt answer_question builds: what varies in it
qa_prompt(question, filename, language, context) ==
    [lang_note |-> IF language # English
                   THEN <<"Answer in ">> \o language \o <<".">> ELSE <<>>,
     filename |-> filename, question |-> question, context |-> context]

\* Q&A without its try block: a failure of the oracle leaves the function
answer_question_unguarded(question, filename, language, context, out) ==
    IF out.kind = "raise" THEN Raise(out.val) ELSE Ok(strip(out.val))

\* Q&A, from the prompt on: context is what search_document returned (it
\* never raises), out the outcome of llm.invoke(prompt)
answer_question(question, filename, language, context, out) ==
    IF out.kind = "raise"
    THEN Ok(<<ErrorTok, " answering question: ">> \o out.val)
    ELSE Ok(strip(out.val))

\* Agent 1, given the outcomes of the calls it makes.  None of the three
\* callees raises past its own boundary, so the except branch of the stage is
\* not reached.
document_processor(st, primary, fallback, lang_out) ==
    LET raw_text == extract_text_from_pdf(primary, fallback)
    IN  IF startswith_Error(raw_text)
        THEN [st EXCEPT !.error = raw_text, !.status = "failed"]
        ELSE [st EXCEPT !.raw_text = raw_text,
                        !.language = detect_language(lang_out),
                        !.status   = "processed"]

\* does the stage get as far as store_document and detect_language
Ingests(primary, fallback) ==
    ~ startswith_Error(extract_text_from_pdf(primary, fallback))

\* a with-block left as soon as the first result() has returned
AllDone_first(fs) == fs["summary"].st = "done"

\* the with-block of parallel_analysis is left only when the three result()
\* calls have returned
AllDone(fs) == \A b \in Branches : fs[b].st = "done"

\* a join that also copies an error-marked summary into the error field
parallel_analysis_recording_error(st, fs) ==
    [st EXCEPT !.summary  = fs["summary"].val,
               !.key_info = fs["key_info"].val,
               !.risks    = fs["risks"].val,
               !.error    = IF startswith_Error(fs["summary"].val)
                            THEN fs["summary"].val ELSE st.error,
               !.status   = "analyzed"]

\* a join that reads the extractor's and the risk branch's futures crosswise
parallel_analysis_swapped(st, fs) ==
    [st EXCEPT !.summary  = fs["summary"].val,
               !.key_info = fs["risks"].val,
               !.risks    = fs["key_info"].val,
               !.status   = "analyzed"]

\* a join that merges the three results and leaves the status as it was
parallel_analysis_status_kept(st, fs) ==
    [st EXCEPT !.summary  = fs["summary"].val,
               !.key_info = fs["key_info"].val,
               !.risks    = fs["risks"].val]

\* the state parallel_analysis returns from the three results
parallel_analysis(st, fs) ==
    [st EXCEPT !.summary  = fs["summary"].val,
               !.key_info = fs["key_info"].val,
               !.risks    = fs["risks"].val,
               !.status   = "analyzed"]

\* the score taken as the oracle gave it
clamp_none(score) == score

\* score = max(0, min(100, score))
clamp(score) == Max(0, Min(100, score))

\* an except branch that fails the run, as report_agent's does
risk_score_except_failing(st) ==
    [st EXCEPT !.error = <<"Error calculating score">>, !.status = "failed"]

\* the except branch of calculate_risk_score
risk_score_except(st) ==
    [st EXCEPT !.risk_score = 50, !.risk_reasoning = <<"Error calculating score">>]

\* Risk Score Calculator.  json.loads and int() raise into the except branch.
calculate_risk_score(st, out) ==
    IF out.kind = "raise" THEN risk_score_except(st)
    ELSE LET content == strip(out.val)
             match   == re_search(LBrace, RBrace, content)
         IN  IF match = <<>>
             THEN [st EXCEPT !.risk_score = 50,
                             !.risk_reasoning = <<"Could not calculate score">>]
             ELSE IF ~ json_object_ok(match) THEN risk_score_except(st)
             ELSE IF ~ int_ok(json_get(match, ScoreKey, ToString(50)))
             THEN risk_score_except(st)
             ELSE LET score     == int(json_get(match, ScoreKey, ToString(50)))
                      reasoning == json_get(match, ReasoningKey, "")
                  IN  [st EXCEPT !.risk_score = clamp(score),
                                 !.risk_reasoning =
                                     IF reasoning = "" THEN <<>> ELSE <<reasoning>>]

\* an except branch that records the error and forgets the status
report_agent_status_kept(st, out) ==
    IF out.kind = "raise"
    THEN [st EXCEPT !.error = out.val]
    ELSE [st EXCEPT !.report = strip(out.val), !.status = "complete"]

\* Agent 5
report_agent(st, out) ==
    IF out.kind = "raise"
    THEN [st EXCEPT !.error = out.val, !.status = "failed"]
    ELSE [st EXCEPT !.report = strip(out.val), !.status = "complete"]

\* the decoded list returned whole
generate_suggested_questions_untruncated(out) ==
    IF out.kind = "raise" THEN <<>>
    ELSE LET content == strip(out.val)
             match   == re_search(LBracket, RBracket, content)
         IN  IF match = <<>> THEN <<>>
             ELSE IF ~ json_array_ok(match) THEN <<>>
             ELSE json_array(match)

generate_suggested_questions(out) ==
    IF out.kind = "raise" THEN <<>>
    ELSE LET content == strip(out.val)
             match   == re_search(LBracket, RBracket, content)
         IN  IF match = <<>> THEN <<>>
             ELSE IF ~ json_array_ok(match) THEN <<>>
             ELSE Prefix(json_array(match), 5)

\* Agent 6
questions_agent(st, out) ==
    [st EXCEPT !.suggested_questions = generate_suggested_questions(out)]

\* a router that never ends the run
should_continue_always(st) == "continue"

\* Router
should_continue(st) == IF st.status = "failed" THEN END ELSE "continue"

\* a graph whose risk_score node leads to END
next_node_unreported(node, st) ==
    CASE node = "document_processor" ->
            IF should_continue(st) = END THEN END ELSE "parallel_analysis"
      [] node = "parallel_analysis" ->
            IF should_continue(st) = END THEN END ELSE "risk_score"
      [] node = "risk_score" -> END
      [] node = "report_generator" ->
            IF should_continue(st) = END THEN END ELSE "questions_agent"
      [] node = "questions_agent" -> END

\* build_pipeline: the node that follows node, given the state node returned
next_node(node, st) ==
    CASE node = "document_processor" ->
            IF should_continue(st) = END THEN END ELSE "parallel_analysis"
      [] node = "parallel_analysis" ->
            IF should_continue(st) = END THEN END ELSE "risk_score"
      [] node = "risk_score" ->
            IF should_continue(st) = END THEN END ELSE "report_generator"
      [] node = "report_generator" ->
            IF should_continue(st) = END THEN END ELSE "questions_agent"
      [] node = "questions_agent" -> END

initial_state(file_path) ==
    [file_path           |-> file_path,
     filename            |-> basename(file_path),
     raw_text            |-> <<>>,
     summary             |-> <<>>,
     key_info            |-> <<>>,
     risks               |-> <<>>,
     risk_score          |-> 0,
     risk_reasoning      |-> <<>>,
     report              |-> <<>>,
     language            |-> English,
     suggested_questions |-> <<>>,
     status              |-> "starting",
     error               |-> <<>>]

\* the dict analyze_document returns
projection(st) ==
    [filename            |-> st.filename,
     summary             |-> st.summary,
     key_info            |-> st.key_info,
     risks               |-> st.risks,
     risk_score          |-> st.risk_score,
     risk_reasoning      |-> st.risk_reasoning,
     report              |-> st.report,
     language            |-> st.language,
     suggested_questions |-> st.suggested_questions,
     status              |-> st.status,
     error               |-> st.error]

\* pipeline.invoke from questions_agent on: the node, then END
invoke_questions_agent(st, env) == questions_agent(st, env.questions)

\* the conditional edge out of report_generator, st being what it returned
after_report_generator(st, env) ==
    IF next_node("report_generator", st) = END THEN st ELSE invoke_questions_agent(st, env)

invoke_report_generator(st, env) == after_report_generator(report_agent(st, env.report), env)

after_risk_score(st, env) ==
    IF next_node("risk_score", st) = END THEN st ELSE invoke_report_generator(st, env)

invoke_risk_score(st, env) == after_risk_score(calculate_risk_score(st, env.score), env)

after_parallel_analysis(st, env) ==
    IF next_node("parallel_analysis", st) = END THEN st ELSE invoke_risk_score(st, env)

\* the three branches have returned what their tools return on env's outcomes
invoke_parallel_analysis(st, env) ==
    after_parallel_analysis(
        parallel_analysis(st,
            [summary  |-> [st |-> "done", val |-> summarize_text(env.summary)],
             key_info |-> [st |-> "done", val |-> extract_key_info(env.key_info)],
             risks    |-> [st |-> "done", val |-> flag_risks(env.risks)]]),
        env)

after_document_processor(st, env) ==
    IF next_node("document_processor", st) = END THEN st ELSE invoke_parallel_analysis(st, env)

\* pipeline.invoke: the graph from its entry point to END, with the outcomes
\* env holds for the calls the nodes make
pipeline_invoke(st, env) ==
    after_document_processor(
        document_processor(st, env.primary, env.fallback, env.lang), env)

\* analyze_document as one call: the dict it returns and the collection
\* afterwards
analyze_document_call(file_path, env, vs) ==
    [result |-> projection(pipeline_invoke(initial_state(file_path), env)),
     vectorstore |->
         IF Ingests(env.primary, env.fallback)
         THEN store_document(file_path, extract_text_from_pdf(env.primary, env.fallback),
                             vs, env.fault).vectorstore
         ELSE vs]

-----------------------------------------------------------------------------
(* src/src/database.py, src/src/backend.py *)

\* an insert that replaces the row already logged for the same file name
log_analysis_replacing(rows, filename, status, summary, key_info, risks, report, risk_score, language, error) ==
    Append(SelectSeq(rows, LAMBDA r : r.filename # filename),
           [id |-> Len(rows) + 1, filename |-> filename, status |-> status,
            summary |-> summary, key_info |-> key_info, risks |-> risks,
            risk_score |-> risk_score, report |-> report, language |-> language,
            error |-> error,
            char_count |-> IF report # <<>> THEN Len(report) ELSE 0])

\* log_analysis: INSERT INTO analyses, the table being rows; id is the
\* AUTOINCREMENT key; the timestamp column is left out
log_analysis(rows, filename, status, summary, key_info, risks, report, risk_score, language, error) ==
    Append(rows,
           [id |-> Len(rows) + 1, filename |-> filename, status |-> status,
            summary |-> summary, key_info |-> key_info, risks |-> risks,
            risk_score |-> risk_score, report |-> report, language |-> language,
            error |-> error,
            char_count |-> IF report # <<>> THEN Len(report) ELSE 0])
\* get_stats: the three row counts of the dashboard (avg_risk and recent,
\* which the counts do not depend on, are left out)
get_stats(rows) ==
    [total      |-> Len(rows),
     successful |-> Cardinality({i \in 1..Len(rows) : rows[i].status = "complete"}),
     failed     |-> Cardinality({i \in 1..Len(rows) : rows[i].status = "failed"})]

\* None
None == <<>>

\* result["filename"] = original_filename when one is given
with_filename(res, original_filename) ==
    IF original_filename # None THEN [res EXCEPT !.filename = original_filename] ELSE res

\* process_document from the log_analysis call on, res being the result
\* with its filename settled.  db_fault: sqlite3 raises in log_analysis before
\* the commit, so no row is written and the exception leaves process_document.
log_and_return(res, vs, rows, db_fault) ==
    IF db_fault
    THEN [outcome |-> Raise(<<"sqlite3.OperationalError">>),
          vectorstore |-> vs, analyses |-> rows]
    ELSE [outcome |-> Ok(res),
          vectorstore |-> vs,
          analyses |-> log_analysis(rows, res.filename, res.status, res.summary,
                                    res.key_info, res.risks, res.report,
                                    res.risk_score, res.language, res.error)]

\* the rest of process_document once analyze_document has returned analyzed
process_analyzed(analyzed, original_filename, rows, db_fault) ==
    log_and_return(with_filename(analyzed.result, original_filename),
                   analyzed.vectorstore, rows, db_fault)

\* process_document: yields the outcome of the call, the collection and the
\* table afterwards
process_document(file_path, original_filename, env, vs, rows, db_fault) ==
    process_analyzed(analyze_document_call(file_path, env, vs), original_filename,
                     rows, db_fault)

-----------------------------------------------------------------------------
(* The environment: the files and the oracles' possible outcomes *)

FilePaths == {<<"tmp", "a.pdf">>}

PrimaryOutcomes ==
    {Raise(e) : e \in ExcMsgs}
        \cup {Ok(<<>>), Ok(<<"a", Space>>), Ok(<<ErrorTok, "a">>)}

FallbackOutcomes ==
    {Raise(e) : e \in ExcMsgs} \cup {Ok(<<Space>>), Ok(<<Space, "a">>)}

StoreFaults == {"none", "get", "add"}

LanguageOutcomes == {Raise(e) : e \in ExcMsgs} \cup {Ok(<<"French", Space>>)}

\* the scores the scoring oracle may put in its JSON object
ScoreValues == {0 - ScoreSlack, 0 - 1, 0, 8, 100, 101, 100 + ScoreSlack}

\* a response holding a JSON object with the integer score n, inside text
ScoreResponse(n) ==
    Ok(<<Space, "text", LBrace, ScoreKey, ToString(n), Comma,
         ReasoningKey, Quote("r"), RBrace, "text">>)

\* responses with no { ... } in them
NoObjectResponses ==
    {Ok(<<>>), Ok(<<"text">>), Ok(<<LBrace, ScoreKey, ToString(8)>>),
     Ok(<<RBrace, "text", LBrace>>)}

\* responses whose first { ... } is not JSON
InvalidJsonResponses ==
    {Ok(<<LBrace, "text", RBrace>>),
     Ok(<<LBrace, ScoreKey, RBrace>>),
     Ok(<<LBrace, LBrace, ScoreKey, ToString(8), RBrace, RBrace>>)}

\* responses whose object has a score that int() rejects
NonNumericScoreResponses ==
    {Ok(<<LBrace, ScoreKey, Quote("high"), RBrace>>),
     Ok(<<LBrace, ScoreKey, JsonNull, Comma, ReasoningKey, Quote("r"), RBrace>>)}

\* other objects: no members, no score, a numeral in a string, two objects
OtherObjectResponses ==
    {Ok(<<LBrace, RBrace>>),
     Ok(<<LBrace, ReasoningKey, Quote("r"), RBrace>>),
     Ok(<<LBrace, ScoreKey, Quote(ToString(8)), RBrace>>),
     Ok(<<LBrace, ScoreKey, ToString(8), RBrace,
          LBrace, ScoreKey, ToString(100), RBrace>>)}

RiskOutcomes ==
    {Raise(e) : e \in ExcMsgs}
        \cup {ScoreResponse(n) : n \in ScoreValues}
        \cup NoObjectResponses \cup InvalidJsonResponses
        \cup NonNumericScoreResponses \cup OtherObjectResponses

\* a JSON array of n distinct question strings, inside surrounding text
QuestionArray(n) ==
    <<"text", LBracket>>
        \o [i \in 1..(IF n = 0 THEN 0 ELSE 2 * n - 1) |->
               IF i % 2 = 1 THEN Quote(ToString((i + 1) \div 2)) ELSE Comma]
        \o <<RBracket, Space>>

\* responses with no [ ... ] in them, or whose first [ ... ] is not JSON
NoArrayResponses ==
    {Ok(<<"text">>),
     Ok(<<Quote("r"), RBracket, LBracket>>),
     Ok(<<LBracket, "text", RBracket>>),
     Ok(<<LBracket, Quote("r"), Comma, RBracket>>),
     Ok(<<LBracket, LBracket, Quote("r"), RBracket, RBracket>>)}

QuestionOutcomes ==
    {Raise(e) : e \in ExcMsgs}
        \cup {Ok(QuestionArray(n)) : n \in 0..MaxArrayLen}
        \cup NoArrayResponses
        \cup {Ok(<<LBracket, Quote("r"), RBracket,
                   LBracket, Quote("r"), Comma, Quote("high"), RBracket>>)}

-----------------------------------------------------------------------------
(* The state machine *)

NoFuture == [st |-> "none", val |-> <<>>]

NoExtraction == [primary |-> NotCalled, fallback |-> NotCalled, ret |-> <<>>]

\* no Q&A call made yet
NoQa == [op |-> "none"]

\* the analyze action is not running
NoApp == [pc |-> "idle"]

\* the graph at rest before any run
InitGraph ==
    /\ pc = "idle"
    /\ state = initial_state(CHOOSE p \in FilePaths : TRUE)
    /\ futures = [b \in Branches |-> NoFuture]
    /\ result = <<>>
    /\ extract_log = NoExtraction
    /\ llm_out = [s \in LlmSites |-> NotCalled]
    /\ tool_calls = {}
    /\ stages = <<>>
    /\ runs = 0
    /\ store_log = <<>>

\* no thread is inside store_document
NoStoring == [t \in Threads |-> [pc |-> "idle"]]

\* nothing asked, an empty log table (init_db), no upload on disk
InitLayers ==
    /\ storing = NoStoring
    /\ qa = NoQa
    /\ analyses = <<>>
    /\ returned = <<>>
    /\ tmp_files = {}
    /\ app = NoApp

Init ==
    /\ InitGraph
    /\ InitLayers
    /\ vectorstore = <<>>
    /\ doc_text = <<>>

\* analyze_document up to pipeline.invoke: a fresh state enters the graph at
\* its entry point
analyze_document ==
    /\ pc = "idle"
    /\ runs < MaxRuns
    /\ \E file_path \in FilePaths : state' = initial_state(file_path)
    /\ pc' = "document_processor"
    /\ futures' = [b \in Branches |-> NoFuture]
    /\ result' = <<>>
    /\ extract_log' = NoExtraction
    /\ llm_out' = [s \in LlmSites |-> NotCalled]
    /\ tool_calls' = {}
    /\ stages' = <<>>
    /\ runs' = runs + 1
    /\ store_log' = <<>>
    /\ UNCHANGED <<vectorstore, appvars>>

Ran(node, st) == Append(stages, [node |-> node, status |-> st.status])

document_processor_node ==
    /\ pc = "document_processor"
    /\ \E primary \in PrimaryOutcomes :
       \E fallback \in IF FallbackTried(primary) THEN FallbackOutcomes ELSE {NotCalled} :
       LET ingests == Ingests(primary, fallback)
       IN  \E fault \in IF ingests THEN StoreFaults ELSE {"none"} :
           \E lang_out \in IF ingests THEN LanguageOutcomes ELSE {NotCalled} :
           LET raw_text == extract_text_from_pdf(primary, fallback)
               new      == document_processor(state, primary, fallback, lang_out)
               stored   == store_document(state.file_path, raw_text, vectorstore, fault)
           IN  /\ state' = new
               /\ vectorstore' = IF ingests THEN stored.vectorstore ELSE vectorstore
               /\ store_log' =
                      IF ingests
                      THEN <<StoreCall(state.file_path, fault, stored, vectorstore)>>
                      ELSE <<>>
               /\ extract_log' = [primary |-> primary, fallback |-> fallback,
                                  ret |-> raw_text]
               /\ llm_out' = [llm_out EXCEPT !["detect_language"] = lang_out]
               /\ tool_calls' = {"extract_text_from_pdf"}
                      \cup (IF ingests THEN {"store_document", "detect_language"} ELSE {})
               /\ stages' = Ran("document_processor", new)
               /\ pc' = next_node("document_processor", new)
    /\ UNCHANGED <<futures, result, runs, appvars>>

\* parallel_analysis up to the three executor.submit calls
parallel_analysis_submit ==
    /\ pc = "parallel_analysis"
    /\ futures' = [b \in Branches |-> [st |-> "running", val |-> <<>>]]
    /\ pc' = "parallel_wait"
    /\ UNCHANGED <<state, vectorstore, result, extract_log, llm_out, tool_calls, stages, runs, store_log, appvars>>

\* a worker thread runs branch b to its return
Branch(b, ret, out) ==
    /\ pc = "parallel_wait"
    /\ futures[b].st = "running"
    /\ futures' = [futures EXCEPT ![b] = [st |-> "done", val |-> ret]]
    /\ llm_out' = [llm_out EXCEPT ![BranchTool[b]] = out]
    /\ tool_calls' = tool_calls \cup {BranchTool[b]}
    /\ UNCHANGED <<pc, state, vectorstore, result, extract_log, stages, runs, store_log, appvars>>

run_summarizer == \E out \in TextOutcomes : Branch("summary", summarize_text(out), out)

run_extractor == \E out \in TextOutcomes : Branch("key_info", extract_key_info(out), out)

run_risk == \E out \in TextOutcomes : Branch("risks", flag_risks(out), out)

\* parallel_analysis from the result() calls to its return
parallel_analysis_join ==
    /\ pc = "parallel_wait"
    /\ AllDone(futures)
    /\ LET new == parallel_analysis(state, futures)
       IN  /\ state' = new
           /\ stages' = Ran("parallel_analysis", new)
           /\ pc' = next_node("parallel_analysis", new)
    /\ UNCHANGED <<futures, vectorstore, result, extract_log, llm_out, tool_calls, runs, store_log, appvars>>

risk_score_node ==
    /\ pc = "risk_score"
    /\ \E out \in RiskOutcomes :
       LET new == calculate_risk_score(state, out)
       IN  /\ state' = new
           /\ llm_out' = [llm_out EXCEPT !["calculate_risk_score"] = out]
           /\ stages' = Ran("risk_score", new)
           /\ pc' = next_node("risk_score", new)
    /\ UNCHANGED <<futures, vectorstore, result, extract_log, tool_calls, runs, store_log, appvars>>

report_generator_node ==
    /\ pc = "report_generator"
    /\ \E out \in TextOutcomes :
       LET new == report_agent(state, out)
       IN  /\ state' = new
           /\ llm_out' = [llm_out EXCEPT !["report_agent"] = out]
           /\ stages' = Ran("report_generator", new)
           /\ pc' = next_node("report_generator", new)
    /\ UNCHANGED <<futures, vectorstore, result, extract_log, tool_calls, runs, store_log, appvars>>

questions_agent_node ==
    /\ pc = "questions_agent"
    /\ \E out \in QuestionOutcomes :
       LET new == questions_agent(state, out)
       IN  /\ state' = new
           /\ llm_out' = [llm_out EXCEPT !["generate_suggested_questions"] = out]
           /\ stages' = Ran("questions_agent", new)
           /\ pc' = next_node("questions_agent", new)
    /\ UNCHANGED <<futures, vectorstore, result, extract_log, tool_calls, runs, store_log, appvars>>

\* pipeline.invoke returns at END and analyze_document returns the projection
analyze_document_return ==
    /\ pc = END
    /\ result' = <<projection(state)>>
    /\ pc' = "idle"
    /\ UNCHANGED <<state, futures, vectorstore, extract_log, llm_out, tool_calls, stages, runs, store_log, appvars>>

Next ==
    \/ analyze_document
    \/ document_processor_node
    \/ parallel_analysis_submit
    \/ run_summarizer
    \/ run_extractor
    \/ run_risk
    \/ parallel_analysis_join
    \/ risk_score_node
    \/ report_generator_node
    \/ questions_agent_node
    \/ analyze_document_return

Spec == Init /\ [][Next]_vars

-----------------------------------------------------------------------------
(* store_document called on its own: a sequence of calls on one collection *)

\* store_document calls per behaviour
MaxStoreCalls == 2
\* the contents span up to MaxWindows window starts
MaxWindows == 3

\* the paths a document is stored from: twice the same file name, once another
StorePaths == {<<"tmp", "a.pdf">>, <<"docs", "a.pdf">>, <<"tmp", "b.pdf">>}

\* content lengths around the multiples of the stride and of the window size
ContentLengths ==
    {k * (chunk_size - overlap) + d : k \in 0..(MaxWindows - 1), d \in {0, 1, overlap, overlap + 1}}

\* a content of length len whose characters from..to are whitespace
Content(len, from, to) ==
    SubSeq([i \in 1..len |-> IF from <= i /\ i <= to THEN Space ELSE "a"], 1, len)

\* no whitespace; all whitespace; the window that starts at the stride all
\* whitespace; all whitespace after the first character; a "b" at every
\* multiple of the stride
Contents ==
    {Content(len, 1, 0) : len \in ContentLengths}
        \cup {SubSeq([i \in 1..len |-> IF i % (chunk_size - overlap) = 1 THEN "b" ELSE "a"],
                     1, len) : len \in ContentLengths}
        \cup {Content(len, 1, len) : len \in ContentLengths}
        \cup {Content(len, (chunk_size - overlap) + 1, (chunk_size - overlap) + chunk_size) :
                  len \in ContentLengths}
        \cup {Content(len, 2, len) : len \in ContentLengths}

\* the contents stored repeatedly: empty, blank, short, and longer than a window
StoreContents ==
    {Content(0, 1, 0), Content(1, 1, 1), Content(3, 2, 2), Content(chunk_size + 1, 1, 0)}

\* store_document.invoke({"file_path": ..., "content": doc_text}), at most
\* max times in a behaviour
StoreStep(max) ==
    /\ Len(store_log) < max
    /\ \E file_path \in StorePaths, fault \in StoreFaults :
       LET stored == store_document(file_path, doc_text, vectorstore, fault)
       IN  /\ vectorstore' = stored.vectorstore
           /\ store_log' = Append(store_log, StoreCall(file_path, fault, stored, vectorstore))
    /\ UNCHANGED <<pipevars, doc_text, storing, qa, analyses, returned, tmp_files, app>>

InitStore ==
    /\ InitGraph
    /\ InitLayers
    /\ vectorstore = <<>>
    /\ doc_text \in StoreContents

store_document_call == StoreStep(MaxStoreCalls)

NextStore == store_document_call

\* a sequence of store_document calls with one content
SpecStore == InitStore /\ [][NextStore]_vars

InitChunks ==
    /\ InitGraph
    /\ InitLayers
    /\ vectorstore = <<>>
    /\ doc_text \in Contents

store_document_once == StoreStep(1)

NextChunks == store_document_once

\* one store_document call on an empty collection, over all the contents
SpecChunks == InitChunks /\ [][NextChunks]_vars

-----------------------------------------------------------------------------
(* store_document called by several threads on one collection *)

\* the contents stored concurrently: one character, three characters
RaceContents == {Content(1, 1, 0), Content(3, 2, 2)}

\* another thread with the same file name is between its lookup and its add
Between(t, file_path) ==
    {u \in Threads \ {t} :
        /\ storing[u].pc = "add"
        /\ basename(storing[u].file_path) = basename(file_path)}

InitRace ==
    /\ InitGraph
    /\ InitLayers
    /\ vectorstore = <<>>
    /\ doc_text \in RaceContents

\* thread t enters store_document and runs it up to the lookup's result;
\* overlapped records that a call on the same name was under way meanwhile
store_document_lookup(t) ==
    /\ storing[t].pc = "idle"
    /\ \E file_path \in StorePaths, fault \in StoreFaults :
       LET found == store_lookup(file_path, vectorstore, fault)
       IN  storing' =
               [u \in Threads |->
                   IF u = t
                   THEN IF found.returns
                        THEN [pc |-> "returned", file_path |-> file_path, fault |-> fault,
                              ret |-> found.ret, added |-> 0,
                              overlapped |-> Between(t, file_path) # {}]
                        ELSE [pc |-> "add", file_path |-> file_path, fault |-> fault,
                              overlapped |-> Between(t, file_path) # {}]
                   ELSE IF u \in Between(t, file_path)
                   THEN [storing[u] EXCEPT !.overlapped = TRUE]
                   ELSE storing[u]]
    /\ UNCHANGED <<pipevars, vectorstore, store_log, doc_text, qa, analyses, returned,
                   tmp_files, app>>

\* thread t runs the rest of store_document: chunking and add_documents
store_document_add(t) ==
    /\ storing[t].pc = "add"
    /\ LET stored == store_add(storing[t].file_path, doc_text, vectorstore, storing[t].fault)
       IN  /\ vectorstore' = stored.vectorstore
           /\ storing' = [storing EXCEPT ![t] =
                  [pc |-> "returned", file_path |-> storing[t].file_path,
                   fault |-> storing[t].fault, ret |-> stored.ret,
                   added |-> Len(stored.vectorstore) - Len(vectorstore),
                   overlapped |-> storing[t].overlapped]]
    /\ UNCHANGED <<pipevars, store_log, doc_text, qa, analyses, returned, tmp_files, app>>

NextRace ==
    \/ \E t \in Threads : store_document_lookup(t)
    \/ \E t \in Threads : store_document_add(t)

\* concurrent store_document calls, one per thread
SpecRace == InitRace /\ [][NextRace]_vars

-----------------------------------------------------------------------------
(* Retrieval and Q&A over a persisted collection *)

\* the documents ingested earlier, in order
StoredDocs ==
    <<[file_path |-> <<"tmp", "a.pdf">>, content |-> <<"a", Space, "b">>],
      [file_path |-> <<"tmp", "b.pdf">>, content |-> <<"c">>],
      [file_path |-> <<"tmp", "c.pdf">>, content |-> <<"d">>]>>

\* the collection after store_document has ingested the first n of them
RECURSIVE Persisted(_)
Persisted(n) ==
    IF n = 0 THEN <<>>
    ELSE store_document(StoredDocs[n].file_path, StoredDocs[n].content,
                        Persisted(n - 1), "none").vectorstore

\* empty, one document, two documents, three documents
PersistedStores == {Persisted(n) : n \in 0..Len(StoredDocs)}

Questions == {<<"q">>, <<>>}

\* the filename argument: none, a stored file, a file never stored
SearchFilenames == {<<>>, <<"a.pdf">>, <<"zzz.pdf">>}

Languages == {English, <<"French">>}

SearchFaults == {"none", "search"}

InitQA ==
    /\ InitGraph
    /\ InitLayers
    /\ vectorstore \in PersistedStores
    /\ doc_text = <<>>

\* search_document.invoke({"query": ..., "filename": ...})
search_document_call ==
    /\ \E query \in Questions, filename \in SearchFilenames, fault \in SearchFaults :
       \E ranked \in IF fault = "none" THEN Rankings(vectorstore, filename) ELSE {<<>>} :
          qa' = [op |-> "search_document", query |-> query, filename |-> filename,
                 fault |-> fault, ranked |-> ranked,
                 ret |-> search_document(query, filename, vectorstore, fault, ranked)]
    /\ UNCHANGED <<pipevars, vectorstore, store_log, doc_text, storing, analyses, returned,
                   tmp_files, app>>

\* ask_document(question, filename, language), which is answer_question
answer_question_call ==
    /\ \E question \in Questions, filename \in SearchFilenames \ {<<>>},
          language \in Languages, fault \in SearchFaults, out \in TextOutcomes :
       \E ranked \in IF fault = "none" THEN Rankings(vectorstore, <<>>) ELSE {<<>>} :
          LET context == search_document(question, <<>>, vectorstore, fault, ranked).val
          IN  qa' = [op |-> "answer_question", question |-> question,
                     filename |-> filename, language |-> language,
                     fault |-> fault, ranked |-> ranked,
                     prompt |-> qa_prompt(question, filename, language, context),
                     out |-> out,
                     ret |-> answer_question(question, filename, language, context, out)]
    /\ UNCHANGED <<pipevars, vectorstore, store_log, doc_text, storing, analyses, returned,
                   tmp_files, app>>

NextQA ==
    \/ search_document_call
    \/ answer_question_call

SpecQA == InitQA /\ [][NextQA]_vars

-----------------------------------------------------------------------------
(* The analyze action of the page (src/app.py) over process_document *)

\* analyses started per behaviour
MaxUploads == 2

\* the names of the uploaded files
UploadNames == {<<"contract.pdf">>, <<"invoice.pdf">>}

\* the paths NamedTemporaryFile may hand out
TmpPaths == {<<"tmp", "tmp" \o ToString(n) \o ".pdf">> : n \in 1..MaxUploads}

\* what the PDF libraries, the index and the oracles do during one run
BackendEnvs ==
    [primary   : {Raise(<<"boom">>), Ok(<<"a", Space>>)},
     fallback  : {Raise(<<"boom">>)},
     fault     : {"none"},
     lang      : {Ok(<<"French", Space>>)},
     summary   : {Raise(<<"boom">>), Ok(<<Space, "s", Space>>)},
     key_info  : {Ok(<<"k">>)},
     risks     : {Ok(<<"r">>)},
     score     : {ScoreResponse(8)},
     report    : {Raise(<<"boom">>), Ok(<<"rep", Space, "ort">>)},
     questions : {Ok(QuestionArray(1))}]

\* the button is pressed: the upload is written to a new temporary file
analyze_click ==
    /\ app.pc = "idle"
    /\ runs < MaxUploads
    /\ \E name \in UploadNames, tmp_path \in TmpPaths \ tmp_files :
          /\ tmp_files' = tmp_files \cup {tmp_path}
          /\ app' = [pc |-> "process_document", tmp_path |-> tmp_path, name |-> name]
    /\ UNCHANGED <<pipevars, vectorstore, store_log, doc_text, storing, qa, analyses, returned>>

\* what a process_document call with yield p does to the shared state
Processed(p) ==
    /\ vectorstore' = p.vectorstore
    /\ analyses' = p.analyses
    /\ returned' = IF p.outcome.kind = "raise" THEN returned
                   ELSE Append(returned, p.outcome.val)
    /\ runs' = runs + 1

\* the same inside the handler: an exception leaves the handler at once,
\* a returned result takes it to os.unlink
ProcessedInHandler(p) ==
    /\ Processed(p)
    /\ app' = IF p.outcome.kind = "raise" THEN NoApp ELSE [app EXCEPT !.pc = "unlink"]

\* result = process_document(tmp_path, uploaded_file.name)
analyze_process ==
    /\ app.pc = "process_document"
    /\ \E env \in BackendEnvs, db_fault \in BOOLEAN :
          ProcessedInHandler(process_document(app.tmp_path, app.name, env, vectorstore,
                                              analyses, db_fault))
    /\ UNCHANGED <<pc, state, futures, result, extract_log, llm_out, tool_calls, stages,
                   store_log, doc_text, storing, qa, tmp_files>>

\* os.unlink(tmp_path), then st.rerun()
analyze_unlink ==
    /\ app.pc = "unlink"
    /\ tmp_files' = tmp_files \ {app.tmp_path}
    /\ app' = NoApp
    /\ UNCHANGED <<pipevars, vectorstore, store_log, doc_text, storing, qa, analyses, returned>>

\* process_document called from outside the page, with or without the
\* original file name
process_document_call ==
    /\ app.pc = "idle"
    /\ runs < MaxUploads
    /\ \E file_path \in FilePaths, original_filename \in {None} \cup UploadNames,
          env \in BackendEnvs, db_fault \in BOOLEAN :
          Processed(process_document(file_path, original_filename, env, vectorstore,
                                     analyses, db_fault))
    /\ UNCHANGED <<pc, state, futures, result, extract_log, llm_out, tool_calls, stages,
                   store_log, doc_text, storing, qa, tmp_files, app>>

NextBackend ==
    \/ analyze_click
    \/ analyze_process
    \/ analyze_unlink
    \/ process_document_call

SpecBackend == Init /\ [][NextBackend]_vars

-----------------------------------------------------------------------------
(* Vocabulary of the properties *)

\* node has run to its return in this run
Invoked(node) == \E i \in 1..Len(stages) : stages[i].node = node

\* number of generation-oracle calls issued in this run
LlmCalls == Cardinality({s \in LlmSites : llm_out[s].kind # "none"})

\* analyze_document has returned
Returned == pc = "idle" /\ result # <<>>

\* the extraction of this run failed: a strategy raised, or both strategies
\* together yielded no text or only whitespace
BothStrategiesBlank ==
    /\ extract_log.primary.kind = "ok"
    /\ extract_log.fallback.kind = "ok"
    /\ \A i \in 1..Len(extract_log.primary.val) : extract_log.primary.val[i] = Space
    /\ \A i \in 1..Len(extract_log.fallback.val) : extract_log.fallback.val[i] = Space

ExtractionRaised ==
    extract_log.primary.kind = "raise" \/ extract_log.fallback.kind = "raise"

ExtractionFailed == ExtractionRaised \/ BothStrategiesBlank

\* the oracle call of one of the three parallel capabilities failed
BranchOracleFailed == \E b \in Branches : llm_out[BranchTool[b]].kind = "raise"

-----------------------------------------------------------------------------
(* Properties *)

\* C1: once a stage has returned status = failed, the graph is at END: no
\* later node runs, no further oracle or tool call is issued, and
\* analyze_document returns that failure state.
ShortCircuitOnFailure ==
    [][/\ state'.status = "failed" => pc' \in {END, "idle"}
       /\ (state.status = "failed" /\ pc = END) =>
              /\ stages' = stages
              /\ llm_out' = llm_out
              /\ tool_calls' = tool_calls
              /\ result' = <<projection(state)>>
              /\ result'[1].status = "failed"]_vars

\* C1 witness: a run that failed in document_processor has returned, and
\* document_processor is the only node that ran.
ShortCircuitWitness ==
    /\ Returned
    /\ result[1].status = "failed"
    /\ Len(stages) = 1
    /\ LlmCalls = 0

\* C2 (as claimed): whenever extraction fails, analyze_document returns
\* status = failed with a non-empty error, nothing but the extraction was
\* invoked, and the analytic fields keep their defaults.
ExtractionFailureFailsRun ==
    (Returned /\ ExtractionFailed) =>
        /\ result[1].status = "failed"
        /\ result[1].error # <<>>
        /\ tool_calls = {"extract_text_from_pdf"}
        /\ LlmCalls = 0
        /\ result[1].summary = <<>>
        /\ result[1].key_info = <<>>
        /\ result[1].risks = <<>>
        /\ result[1].report = <<>>
        /\ result[1].risk_score = 0
        /\ result[1].suggested_questions = <<>>

\* C2, the part the code satisfies: the same statement for the runs in which
\* an extraction strategy raised.
ExtractionRaiseFailsRun ==
    (Returned /\ ExtractionRaised) =>
        /\ result[1].status = "failed"
        /\ result[1].error # <<>>
        /\ tool_calls = {"extract_text_from_pdf"}
        /\ LlmCalls = 0
        /\ result[1].summary = <<>>
        /\ result[1].key_info = <<>>
        /\ result[1].risks = <<>>
        /\ result[1].report = <<>>
        /\ result[1].risk_score = 0
        /\ result[1].suggested_questions = <<>>

\* C3 (as claimed): when both strategies yield no text or only whitespace,
\* extract_text_from_pdf returns a failure value, not the empty string, the
\* run never has status = processed and it ends failed with risk_score = 0.
BlankExtractionIsFailure ==
    (Invoked("document_processor") /\ BothStrategiesBlank) =>
        /\ extract_log.ret # <<>>
        /\ state.status = "failed"
        /\ state.risk_score = 0
        /\ Returned => (result[1].status = "failed" /\ result[1].risk_score = 0)

\* C4: whenever the risk-score node is about to run or has run, and whenever
\* status = analyzed, each of the three branches has returned and summary,
\* key_info and risks hold what the branches returned.
ParallelBarrier ==
    (pc = "risk_score" \/ Invoked("risk_score") \/ state.status = "analyzed") =>
        /\ \A b \in Branches :
              /\ futures[b].st = "done"
              /\ llm_out[BranchTool[b]].kind # "none"
        /\ state.summary = futures["summary"].val
        /\ state.key_info = futures["key_info"].val
        /\ state.risks = futures["risks"].val

\* C4 witness: the risk-score node is about to run on an analyzed state.
ParallelBarrierWitness ==
    /\ pc = "risk_score"
    /\ state.status = "analyzed"
    /\ \A b \in Branches : futures[b].st = "done"

\* C5 (as claimed): when the oracle call of a parallel capability failed, the
\* stage ends the run with status = failed, and neither risk scoring nor
\* report generation runs.
BranchFailureFailsRun ==
    (Invoked("parallel_analysis") /\ BranchOracleFailed) =>
        /\ state.status = "failed"
        /\ pc \in {END, "idle"}
        /\ ~ Invoked("risk_score")
        /\ ~ Invoked("report_generator")

\* C6: risk_score is in 0..100 in every state and in every result, and for
\* a response that carries the integer score n it is n clamped to 0..100.
RiskScoreInRange ==
    /\ state.risk_score \in 0..100
    /\ result # <<>> => result[1].risk_score \in 0..100
    /\ \A n \in ScoreValues :
          (Invoked("risk_score") /\ llm_out["calculate_risk_score"] = ScoreResponse(n)) =>
              state.risk_score = (IF n < 0 THEN 0 ELSE IF n > 100 THEN 100 ELSE n)

\* C6 witness: the oracle scored above 100 and the run holds 100.
RiskScoreClampWitness ==
    /\ Invoked("risk_score")
    /\ llm_out["calculate_risk_score"] = ScoreResponse(100 + ScoreSlack)
    /\ state.risk_score = 100

\* the responses of the scoring oracle that cannot be parsed, and its failures
RiskUnparsable ==
    {Raise(e) : e \in ExcMsgs} \cup NoObjectResponses \cup InvalidJsonResponses
        \cup NonNumericScoreResponses

RiskDiagnostics == {<<"Could not calculate score">>, <<"Error calculating score">>}

\* C7: a step of the risk-score node whose oracle call raised or returned an
\* unparsable response sets risk_score = 50 and a diagnostic risk_reasoning,
\* changes no other field (status and error stay), and hands over to
\* report_generator.
RiskScoreDefault ==
    [][(pc = "risk_score" /\ llm_out'["calculate_risk_score"] \in RiskUnparsable) =>
          /\ state'.risk_score = 50
          /\ state'.risk_reasoning \in RiskDiagnostics
          /\ state' = [state EXCEPT !.risk_score = 50,
                                    !.risk_reasoning = state'.risk_reasoning]
          /\ state'.status = "analyzed"
          /\ state'.error = <<>>
          /\ pc' = "report_generator"]_vars

\* C7 witness: the scoring oracle raised, and report_generator is next with
\* the default score.
RiskScoreDefaultWitness ==
    /\ pc = "report_generator"
    /\ llm_out["calculate_risk_score"].kind = "raise"
    /\ state.risk_score = 50
    /\ state.status = "analyzed"

\* C8: a step of report_generator whose oracle call raised changes only
\* status (to failed) and error (to the exception's text) and ends the graph;
\* from then on report is empty, questions_agent has not run and made no
\* oracle call, and the result carries the summary, key_info, risks and
\* risk_score of the state.
ReportFailureFailsRun ==
    [][/\ (pc = "report_generator" /\ llm_out'["report_agent"].kind = "raise") =>
              /\ state' = [state EXCEPT !.status = "failed",
                                        !.error = llm_out'["report_agent"].val]
              /\ pc' = END
       /\ llm_out'["report_agent"].kind = "raise" =>
              /\ state'.status = "failed"
              /\ state'.report = <<>>
              /\ \A i \in 1..Len(stages') : stages'[i].node # "questions_agent"
              /\ llm_out'["generate_suggested_questions"].kind = "none"
              /\ result' # <<>> =>
                    /\ result'[1].status = "failed"
                    /\ result'[1].error = llm_out'["report_agent"].val
                    /\ result'[1].report = <<>>
                    /\ result'[1].summary = state'.summary
                    /\ result'[1].key_info = state'.key_info
                    /\ result'[1].risks = state'.risks
                    /\ result'[1].risk_score = state'.risk_score]_vars

\* C8 witness: the report oracle raised in a run that had a summary and a
\* non-default score, and the run has returned.
ReportFailureWitness ==
    /\ Returned
    /\ llm_out["report_agent"].kind = "raise"
    /\ result[1].status = "failed"
    /\ result[1].summary # <<>>
    /\ result[1].risk_score = 8

\* C9: a step of questions_agent changes suggested_questions only (status
\* and error stay), to a list of at most 5 entries, which is empty when the
\* oracle raised or returned no parsable JSON array, and is the first
\* min(n, 5) questions of an array of n.
QuestionsNeverFail ==
    [][pc = "questions_agent" =>
          LET out == llm_out'["generate_suggested_questions"]
              qs  == state'.suggested_questions
          IN  /\ state' = [state EXCEPT !.suggested_questions = qs]
              /\ state'.status = state.status
              /\ state'.error = state.error
              /\ Len(qs) <= 5
              /\ (out.kind = "raise" \/ out \in NoArrayResponses) => qs = <<>>
              /\ \A n \in 0..MaxArrayLen :
                    out = Ok(QuestionArray(n)) =>
                        qs = [i \in 1..(IF n < 5 THEN n ELSE 5) |-> Quote(ToString(i))]]_vars

\* C9 witness: the oracle returned the longest array and 5 questions were kept.
QuestionsWitness ==
    /\ pc = END
    /\ llm_out["generate_suggested_questions"] = Ok(QuestionArray(MaxArrayLen))
    /\ Len(state.suggested_questions) = 5
    /\ state.status = "complete"

NodeOrder ==
    <<"document_processor", "parallel_analysis", "risk_score", "report_generator",
      "questions_agent">>

\* C10 (as claimed): the nodes run in order and, unless failed, the status
\* is processed after document_processor, analyzed after parallel_analysis,
\* scored after risk_score and report_generator, complete after
\* questions_agent; status is one of the six values.
StatusSequenceWithScored ==
    /\ state.status \in {"starting", "processed", "analyzed", "scored", "complete", "failed"}
    /\ \A i \in 1..Len(stages) :
          /\ stages[i].node = NodeOrder[i]
          /\ stages[i].status \in
                {"failed", <<"processed", "analyzed", "scored", "scored", "complete">>[i]}

\* C10 (amended): the nodes run in order and, unless failed, the status is
\* processed after document_processor, analyzed after parallel_analysis and
\* after risk_score, complete after report_generator and after
\* questions_agent; the state holds the status the last node returned, and
\* status is one of starting, processed, analyzed, complete, failed.
StatusSequence ==
    /\ state.status \in {"starting", "processed", "analyzed", "complete", "failed"}
    /\ state.status = IF stages = <<>> THEN "starting" ELSE stages[Len(stages)].status
    /\ \A i \in 1..Len(stages) :
          /\ stages[i].node = NodeOrder[i]
          /\ stages[i].status \in
                {"failed", <<"processed", "analyzed", "analyzed", "complete", "complete">>[i]}
          /\ stages[i].status = "failed" => i \in {1, 4} /\ i = Len(stages)

\* C10 witness: a run went through the five nodes and is complete.
StatusSequenceWitness ==
    /\ pc = END
    /\ Len(stages) = 5
    /\ state.status = "complete"

-----------------------------------------------------------------------------
(* Ingestion, retrieval and Q&A: C11 .. C16 *)

\* the string store_document returns when it skips
SkipMessage(file_path) ==
    <<"Document ">> \o basename(file_path) \o <<" already stored - skipping.">>

\* call n + 1 of the log repeats call n: the same file name, non-blank
\* content, the first call met no fault and the second got past its lookup
RepeatsCall(log, n) ==
    /\ n >= 1
    /\ Len(log) = n + 1
    /\ strip(doc_text) # <<>>
    /\ basename(log[n + 1].file_path) = basename(log[n].file_path)
    /\ log[n].fault = "none"
    /\ log[n + 1].fault # "get"

\* C11: when store_document is called twice in sequence with the same file
\* name and non-blank content, the second call adds no chunk, returns the
\* "already stored - skipping" string and leaves the collection as it was,
\* and the collection holds the chunks of the content under that name once.
IdempotentIngestion ==
    [][ RepeatsCall(store_log', Len(store_log)) =>
          LET second == store_log'[Len(store_log')]
              name   == basename(second.file_path)
              held   == SelectSeq(vectorstore', LAMBDA d : d.source = name)
          IN  /\ vectorstore' = vectorstore
              /\ second.added = 0
              /\ second.ret = SkipMessage(second.file_path)
              /\ held = make_chunks(doc_text, name, 0, <<>>) ]_vars

\* C11 witness: a content longer than one window was stored from one path
\* and then offered again from another path with the same file name.
IdempotentIngestionWitness ==
    /\ Len(store_log) = 2
    /\ Len(doc_text) > chunk_size
    /\ store_log[1].file_path # store_log[2].file_path
    /\ RepeatsCall(store_log, 1)
    /\ store_log[1].added = 2
    /\ store_log[2].ret = SkipMessage(store_log[2].file_path)
    /\ Len(vectorstore) = 2

\* ceil(a / b) for a >= 0 and b > 0
CeilDiv(a, b) == (a + b - 1) \div b

\* the window starts of a content: 0, W - O, 2 (W - O), ... below its length
WindowStarts(content) ==
    {i \in 0..(Len(content) - 1) : i % (chunk_size - overlap) = 0}

\* no window of the content is all whitespace
NoBlankWindow(content) ==
    \A i \in WindowStarts(content) :
        \E j \in (i + 1)..Min(i + chunk_size, Len(content)) : content[j] # Space

NonBlank(text) == \E j \in 1..Len(text) : text[j] # Space

\* a call that got as far as add_documents on a content without blank windows
StoredUnblanked(call) ==
    /\ call.fault = "none"
    /\ call.ret # SkipMessage(call.file_path)
    /\ NoBlankWindow(doc_text)

\* C12 as stated: a content of length L without blank windows yields
\* ceil(max(0, L - O) / (W - O)) chunks with W = 1000 and O = 200 (one chunk
\* for L = 1000), none of them empty or all whitespace.
ChunkCountLessOverlap ==
    /\ \A n \in 1..Len(store_log) :
          StoredUnblanked(store_log[n]) =>
              store_log[n].added
                  = CeilDiv(Max(0, Len(doc_text) - overlap), chunk_size - overlap)
    /\ \A n \in 1..Len(vectorstore) : NonBlank(vectorstore[n].page_content)

\* C12 (amended): a content of length L without blank windows yields
\* ceil(L / (W - O)) chunks, one per window start 0, 800, 1600, ... below L
\* (two chunks for L = 1000, one for 1 <= L <= 800), and no stored chunk is
\* empty or all whitespace.
ChunkCount ==
    /\ \A n \in 1..Len(store_log) :
          StoredUnblanked(store_log[n]) =>
              store_log[n].added = CeilDiv(Len(doc_text), chunk_size - overlap)
    /\ \A n \in 1..Len(vectorstore) : NonBlank(vectorstore[n].page_content)

\* C12 witness: a content of exactly 1000 non-whitespace characters was
\* stored as two chunks, the second being its last 200 characters.
ChunkCountWitness ==
    /\ Len(store_log) = 1
    /\ StoredUnblanked(store_log[1])
    /\ Len(doc_text) = chunk_size
    /\ store_log[1].added = 2
    /\ Len(vectorstore) = 2
    /\ vectorstore[2].page_content
           = SubSeq(doc_text, chunk_size - overlap + 1, chunk_size)

\* the last Q&A-layer call was a search that met no fault and whose filter
\* admits no stored chunk (the collection is empty or no source matches)
SearchedNothing ==
    /\ qa.op = "search_document"
    /\ qa.fault = "none"
    /\ \A i \in 1..Len(vectorstore) :
          qa.filename # <<>> /\ vectorstore[i].source # qa.filename

\* C13: search_document returns "No relevant sections found." when the
\* collection is empty or the filename filter matches no chunk; it never
\* raises and never returns the empty string.
SearchSentinel ==
    qa.op = "search_document" =>
        /\ qa.ret.kind = "ok"
        /\ qa.ret.val # <<>>
        /\ SearchedNothing => qa.ret.val = NoSections

\* C13 witness: a search filtered on a file name that was never stored, in a
\* collection that holds chunks, returned the sentinel.
SearchSentinelWitness ==
    /\ SearchedNothing
    /\ vectorstore # <<>>
    /\ qa.filename = <<"zzz.pdf">>
    /\ qa.ret = Ok(NoSections)

\* a search of the empty collection returned the sentinel
SearchEmptyIndexWitness ==
    /\ SearchedNothing
    /\ vectorstore = <<>>
    /\ qa.ret = Ok(NoSections)

\* C15: answer_question never raises, and when the generation oracle fails
\* it returns a string that begins "Error answering question", whatever the
\* question, the filename and the language.
AnswerNeverRaises ==
    qa.op = "answer_question" =>
        /\ qa.ret.kind = "ok"
        /\ qa.out.kind = "raise" =>
              /\ Len(qa.ret.val) >= 2
              /\ qa.ret.val[1] = ErrorTok
              /\ qa.ret.val[2] = " answering question: "

\* C15 witness: the oracle failed on a question asked in French about a
\* stored document, and the error string came back.
AnswerNeverRaisesWitness ==
    /\ qa.op = "answer_question"
    /\ qa.out.kind = "raise"
    /\ qa.language # English
    /\ qa.fault = "none"
    /\ vectorstore # <<>>
    /\ qa.ret = Ok(<<ErrorTok, " answering question: ">> \o qa.out.val)

\* C16: when the retrieval inside answer_question fails, the answer is
\* error-marked; the text of the search error is not handed to the oracle as
\* the document context with the oracle's answer returned.
RetrievalFailureMarked ==
    (qa.op = "answer_question" /\ qa.fault # "none") =>
        /\ startswith_Error(qa.ret.val)
        /\ ~ startswith_Error(qa.prompt.context)

\* C14: a store_document call that fails inside document_processor (the
\* lookup, the embedding or the insertion raises) fails the run: status is
\* failed and error holds the failure; the run never goes on as processed.
IngestionFailureFatal ==
    \A n \in 1..Len(store_log) :
        startswith_Error(store_log[n].ret) =>
            /\ state.status = "failed"
            /\ state.error # <<>>

-----------------------------------------------------------------------------
(* The log store and the temporary upload: C18, C19 *)

\* row is the log record of the result res
LogsResult(row, res) ==
    /\ row.filename = res.filename
    /\ row.status = res.status
    /\ row.summary = res.summary
    /\ row.key_info = res.key_info
    /\ row.risks = res.risks
    /\ row.risk_score = res.risk_score
    /\ row.report = res.report
    /\ row.language = res.language
    /\ row.error = res.error
    /\ row.char_count = Len(res.report)

\* C18: after any sequence of process_document calls the table holds one
\* row per call that returned, complete and failed alike, in call order; row
\* i carries the filename, status, summary, key_info, risks, risk_score,
\* report, language and error of the i-th returned result, with char_count
\* the length of its report; and no step changes or removes an earlier row.
LogOneRowPerCall ==
    /\ [](/\ Len(analyses) = Len(returned)
          /\ \A i \in 1..Len(analyses) : LogsResult(analyses[i], returned[i]))
    /\ [][/\ Len(analyses') >= Len(analyses)
          /\ \A i \in 1..Len(analyses) : analyses'[i] = analyses[i]]_vars

\* C18 witness: two calls returned for the same uploaded name, the first
\* failed and the second complete, and both rows are in the table.
LogOneRowPerCallWitness ==
    /\ Len(returned) = 2
    /\ Len(analyses) = 2
    /\ returned[1].filename = returned[2].filename
    /\ returned[1].status = "failed"
    /\ returned[2].status = "complete"
    /\ analyses[2].char_count = 3
    /\ LogsResult(analyses[1], returned[1])

\* C19: when the analyze action is over, however it ended (a complete run,
\* a failed run, or process_document raising), its temporary upload file is
\* no longer on disk.
TempFileRemoved ==
    app.pc = "idle" => tmp_files = {}

\* the temporary file is removed whenever process_document returns
TempFileRemovedOnReturn ==
    (app.pc = "idle" /\ Len(returned) = runs) => tmp_files = {}

-----------------------------------------------------------------------------
(* Whole runs and the parallel branches: C17, C20 *)

\* no oracle call of this run failed or came back blank
OraclesAnswered ==
    \A s \in LlmSites :
        /\ llm_out[s].kind # "raise"
        /\ llm_out[s].kind = "ok" => NonBlank(llm_out[s].val)

\* the extraction tool returned non-empty text and neither strategy raised
TextExtracted == ~ ExtractionRaised /\ extract_log.ret # <<>>

\* the returned result is a complete one
CompleteResult ==
    /\ result[1].status = "complete"
    /\ result[1].error = <<>>
    /\ result[1].summary # <<>>
    /\ result[1].key_info # <<>>
    /\ result[1].risks # <<>>
    /\ result[1].report # <<>>
    /\ result[1].risk_score \in 0..100

\* C17: for every document with extractable non-empty text, when every
\* oracle call returns non-empty text, the run ends with status complete, an
\* empty error, non-empty summary, key_info, risks and report, and a
\* risk_score in 0..100.
HealthyRunCompletes ==
    (Returned /\ TextExtracted /\ OraclesAnswered) => CompleteResult

\* the same for the documents whose text does not begin with "Error"
HealthyRunCompletesUnlessErrorText ==
    (Returned /\ TextExtracted /\ OraclesAnswered /\ ~ startswith_Error(extract_log.ret))
        => CompleteResult

\* every node that has not returned can run: a run in progress always has a
\* next step, up to the return of analyze_document
RunProgresses ==
    pc # "idle" => ENABLED Next

\* C20: whatever the order in which the branches complete, the joined state
\* has summary = what the summarizer returned, key_info = what the extractor
\* returned, risks = what the risk branch returned; a branch step leaves the
\* run state untouched; and while a branch is still running it can complete,
\* whether or not a sibling has returned an error-marked string.
BranchIsolation ==
    /\ [](/\ Invoked("parallel_analysis") =>
                /\ state.summary = summarize_text(llm_out["summarize_text"])
                /\ state.key_info = extract_key_info(llm_out["extract_key_info"])
                /\ state.risks = flag_risks(llm_out["flag_risks"])
          /\ pc = "parallel_wait" =>
                /\ futures["summary"].st = "running" => ENABLED run_summarizer
                /\ futures["key_info"].st = "running" => ENABLED run_extractor
                /\ futures["risks"].st = "running" => ENABLED run_risk)
    /\ [][(pc = "parallel_wait" /\ pc' = "parallel_wait") => state' = state]_vars

\* C20 witness: the risk branch returned an error-marked string, the other
\* two branches returned their texts, and the join put each in its own field.
BranchIsolationWitness ==
    /\ pc = "risk_score"
    /\ Invoked("parallel_analysis")
    /\ llm_out["flag_risks"].kind = "raise"
    /\ llm_out["summarize_text"].kind = "ok"
    /\ llm_out["extract_key_info"].kind = "ok"
    /\ startswith_Error(state.risks)
    /\ state.summary = <<"a">>
    /\ state.key_info = <<"a">>

-----------------------------------------------------------------------------
(* Concurrent ingestion, frames, chunk structure, statuses, file names: C21 .. C26 *)

\* the threads whose store_document call has added chunks under name
Adders(name) ==
    {t \in Threads :
        /\ storing[t].pc = "returned"
        /\ basename(storing[t].file_path) = name
        /\ storing[t].added > 0}

\* the stored chunks whose source is name, in the order of the collection
Held(name) == SelectSeq(vectorstore, LAMBDA d : d.source = name)

\* s repeated k times
RECURSIVE Repeated(_, _)
Repeated(s, k) == IF k = 0 THEN <<>> ELSE s \o Repeated(s, k - 1)

StoredNames == {basename(p) : p \in StorePaths}

\* C21: store_document's lookup and add are separate steps.  The collection
\* holds a document's chunks once per call that added them; two calls add
\* the chunks of one name only when each was between its lookup and its add
\* while the other was under way, so calls made one after the other store
\* them once; and an interleaving with both lookups before either add leaves
\* them stored twice (the witness).
DuplicatesOnlyByRace ==
    \A name \in StoredNames :
        /\ Held(name)
               = Repeated(make_chunks(doc_text, name, 0, <<>>), Cardinality(Adders(name)))
        /\ Cardinality(Adders(name)) > 1 => \A t \in Adders(name) : storing[t].overlapped
        /\ (\E t \in Threads :
               /\ storing[t].pc = "returned"
               /\ basename(storing[t].file_path) = name
               /\ storing[t].fault = "none") => Held(name) # <<>>

\* C21 witness: two threads stored the same file name from different paths,
\* both lookups ran before either add, and the collection holds the
\* document's chunks twice.
DuplicatesOnlyByRaceWitness ==
    /\ storing[1].pc = "returned"
    /\ storing[2].pc = "returned"
    /\ storing[1].file_path # storing[2].file_path
    /\ Adders(<<"a.pdf">>) = {1, 2}
    /\ storing[1].overlapped /\ storing[2].overlapped
    /\ Held(<<"a.pdf">>) = make_chunks(doc_text, <<"a.pdf">>, 0, <<>>)
                               \o make_chunks(doc_text, <<"a.pdf">>, 0, <<>>)
    /\ Len(Held(<<"a.pdf">>)) = 2

\* the fields of DocumentState
Fields == {"file_path", "filename", "raw_text", "summary", "key_info", "risks",
           "risk_score", "risk_reasoning", "report", "language",
           "suggested_questions", "status", "error"}

\* the fields a node may change, by whether it returned a failed state
OwnFields(node, failed) ==
    CASE node = "document_processor" ->
             IF failed THEN {"error", "status"} ELSE {"raw_text", "language", "status"}
      [] node = "parallel_analysis" -> {"summary", "key_info", "risks", "status"}
      [] node = "risk_score" -> {"risk_score", "risk_reasoning"}
      [] node = "report_generator" ->
             IF failed THEN {"error", "status"} ELSE {"report", "status"}
      [] node = "questions_agent" -> {"suggested_questions"}

\* C22: the state a node returns differs from the state it was given only
\* in the node's own fields: document_processor raw_text, language, status
\* (error, status when it fails); parallel_analysis summary, key_info, risks,
\* status; calculate_risk_score risk_score, risk_reasoning; report_agent
\* report, status (error, status when it fails); questions_agent
\* suggested_questions.  Once status is failed the state of the run does not
\* change again.
StageFrames ==
    [][/\ Len(stages') = Len(stages) + 1 =>
              {f \in Fields : state'[f] # state[f]}
                  \subseteq OwnFields(stages'[Len(stages')].node, state'.status = "failed")
       /\ (state.status = "failed" /\ runs' = runs) => state' = state]_vars

\* C22 witness: report_agent failed in a run whose analysis and score are
\* in the state; they are still there.
StageFramesWitness ==
    /\ pc = END
    /\ Len(stages) = 4
    /\ state.status = "failed"
    /\ state.error # <<>>
    /\ state.summary = <<"a">>
    /\ state.risk_score = 8
    /\ state.raw_text # <<>>

\* the window of content that starts at offset i
Window(content, i) == SubSeq(content, i + 1, Min(i + chunk_size, Len(content)))

\* the starts of the windows that are not all whitespace
KeptStarts(content) == {i \in WindowStarts(content) : NonBlank(Window(content, i))}

\* the number of non-blank windows that start before offset i
Rank(content, i) == Cardinality({j \in KeptStarts(content) : j < i})

\* C23: after store_document stored a content in an empty collection, the
\* collection holds exactly the non-blank windows that start at the offsets
\* 0, 800, 1600, ... below the content's length, in that order, each at most
\* 1000 characters long and numbered by chunk_id 0 .. n-1 with the blank
\* windows not counted; every character of the content lies in a window, and
\* a window of full length shares its last 200 characters with the next one.
ChunkStructure ==
    \A n \in 1..Len(store_log) :
        (store_log[n].fault = "none" /\ store_log[n].ret # SkipMessage(store_log[n].file_path)) =>
            /\ Len(vectorstore) = Cardinality(KeptStarts(doc_text))
            /\ \A i \in KeptStarts(doc_text) :
                  /\ vectorstore[Rank(doc_text, i) + 1].page_content = Window(doc_text, i)
                  /\ vectorstore[Rank(doc_text, i) + 1].chunk_id = Rank(doc_text, i)
            /\ \A k \in 1..Len(vectorstore) :
                  /\ NonBlank(vectorstore[k].page_content)
                  /\ Len(vectorstore[k].page_content) <= chunk_size
                  /\ vectorstore[k].chunk_id = k - 1
                  /\ vectorstore[k].source = basename(store_log[n].file_path)
            /\ \A j \in 1..Len(doc_text) :
                  \E i \in WindowStarts(doc_text) : i < j /\ j <= i + chunk_size
            /\ \A i \in WindowStarts(doc_text) :
                  i + chunk_size <= Len(doc_text) =>
                      /\ i + (chunk_size - overlap) \in WindowStarts(doc_text)
                      /\ SubSeq(Window(doc_text, i), chunk_size - overlap + 1, chunk_size)
                             = SubSeq(Window(doc_text, i + (chunk_size - overlap)), 1, overlap)

\* C23 witness: the window at offset 800 was blank and skipped; the window at
\* offset 1600 is stored right after the one at offset 0, with chunk_id 1.
ChunkStructureWitness ==
    /\ Len(store_log) = 1
    /\ store_log[1].fault = "none"
    /\ KeptStarts(doc_text) = {0, 2 * (chunk_size - overlap)}
    /\ Len(vectorstore) = 2
    /\ vectorstore[2].chunk_id = 1
    /\ vectorstore[2].page_content = Window(doc_text, 2 * (chunk_size - overlap))

\* the statuses a finished run carries
FinalStatuses == {"complete", "failed"}

\* C24: every result analyze_document returned, here and through
\* process_document, has status complete or failed, never starting,
\* processed, analyzed or scored; so has every row of the analyses table, and
\* get_stats counts total = successful + failed.
StatusSettled ==
    /\ Returned => result[1].status \in FinalStatuses
    /\ \A i \in 1..Len(returned) : returned[i].status \in FinalStatuses
    /\ \A i \in 1..Len(analyses) : analyses[i].status \in FinalStatuses
    /\ get_stats(analyses).total
           = get_stats(analyses).successful + get_stats(analyses).failed

\* C24 witness: a run that completed and a run that failed are both logged,
\* and the dashboard counts two analyses, one successful, one failed.
StatusSettledWitness ==
    /\ Len(returned) = 2
    /\ returned[1].status = "complete"
    /\ returned[2].status = "failed"
    /\ get_stats(analyses) = [total |-> 2, successful |-> 1, failed |-> 1]

\* C25: document_processor returns status failed only if a PDF library
\* raised during extraction; a run whose text was extracted without an
\* exception and begins with "Error" gets status processed.
FailedOnlyWhenExtractionFailed ==
    Invoked("document_processor") =>
        /\ stages[1].status = "failed" => ExtractionRaised
        /\ (~ ExtractionRaised /\ startswith_Error(extract_log.ret)) =>
               stages[1].status = "processed"

\* the chunks stored under a document name
ChunksOf(name) == {k \in 1..Len(vectorstore) : vectorstore[k].source = name}

\* C26: the filename of every completed result process_document returned,
\* and of its row, is the source of the chunks that run ingested, also when
\* original_filename was given; and two completed analyses returned under
\* one filename left the document's chunks in the collection once.
FilenameConsistent ==
    \A i \in 1..Len(returned) :
        returned[i].status = "complete" =>
            /\ ChunksOf(returned[i].filename) # {}
            /\ \E r \in 1..Len(analyses) :
                  analyses[r].filename = returned[i].filename
            /\ \A j \in 1..Len(returned) :
                  (j # i /\ returned[j].status = "complete"
                     /\ returned[j].filename = returned[i].filename) =>
                      \A k \in 1..Len(vectorstore) :
                          Cardinality({m \in 1..Len(vectorstore) :
                              vectorstore[m].page_content = vectorstore[k].page_content}) = 1

====
